---- MODULE Spec2Model ----
(***************************************************************************)
(* Wordle: the raw-terminal game loop (src/src/game.rs, Game::start), the  *)
(* TUI controller loop (src/src/bin/wordle/controller/tui.rs,              *)
(* Controller::run) and the scoring / state / keyboard library they call.  *)
(*                                                                         *)
(* Characters are Unicode code points (97 = 'a', 65 = 'A', 10 = '\n'), so  *)
(* that is_ascii, is_ascii_alphabetic and to_ascii_lowercase are computed  *)
(* and not assumed.  A word is a sequence of code points.                  *)
(***************************************************************************)
EXTENDS Integers, Sequences, FiniteSets, TLC

VARIABLES
    variant,    \* "raw" (Game::start), "tui" (Controller::run), "api" (a client
                \* calling submit_guess itself), "score" (diff alone)
    game_type,  \* GameType: [tag |-> "Daily", day |-> d] or [tag |-> "Custom"]
    solution,   \* Game.solution / State.solution
    guesses,    \* raw: Vec<String>; tui: the State's (word, matches) pairs
    outcome,    \* tui: the State's outcome; raw keeps no such field
    keyboard,   \* tui: Keyboard, letter -> best known status
    word,       \* the candidate buffer `word` of the loop, <<>> once the loop
                \* has returned and the local is gone; api: the last candidate
    pc,         \* "input": first loop; "ack": tui's second loop; "done": returned
    ret,        \* what start()/run() returned, [tag |-> "Running"] before that
    last,       \* result of the last submission ("none" before the first)
    dInput,     \* diff alone: the guess
    dSolution,  \* diff alone: the solution
    dMatches,   \* diff alone: the result, <<>> before the call
    pair        \* both loops side by side, fed the same keys: [raw, tui], each
                \* the state of one loop; <<>> when a single program runs

vars == <<variant, game_type, solution, guesses, outcome, keyboard, word, pc,
          ret, last, dInput, dSolution, dMatches, pair>>

gameVars == <<variant, game_type, solution, guesses, outcome, keyboard, word,
              pc, ret, last>>

diffVars == <<dInput, dSolution, dMatches>>

----------------------------------------------------------------------------
(* Program constants and bounds *)

WordLen == 5

MaxGuesses == 6

\* number of letters the words of the diff-alone specification are drawn over
AlphaSize == 3

\* daily games are started for the days 0 .. MaxDay
MaxDay == 1

----------------------------------------------------------------------------
(* Characters and words *)

Lower == <<"a", "b", "c", "d", "e", "f", "g", "h", "i", "j", "k", "l", "m",
           "n", "o", "p", "q", "r", "s", "t", "u", "v", "w", "x", "y", "z">>

\* code point of a lower-case letter written as a one-letter string
Ord(ch) == 96 + (CHOOSE i \in 1..26 : Lower[i] = ch)

\* the word spelled by a sequence of one-letter strings
W(q) == [i \in DOMAIN q |-> Ord(q[i])]

Letters == {Ord(Lower[i]) : i \in 1..26}

Range(f) == {f[i] : i \in DOMAIN f}

is_ascii(c) == c >= 0 /\ c < 128

is_ascii_alphabetic(c) == (c >= 65 /\ c <= 90) \/ (c >= 97 /\ c <= 122)

to_ascii_lowercase(c) == IF c >= 65 /\ c <= 90 THEN c + 32 ELSE c

\* '\n', what termion delivers for the Enter key
NewLine == 10

----------------------------------------------------------------------------
(* logic::diff, the Matcher: two passes over the guess *)

\* number of positions of w holding c
Count(w, c) == Cardinality({i \in DOMAIN w : w[i] = c})

\* the remaining counts start as the letter histogram of the solution
Histogram(input, sol) == [c \in Range(input) \cup Range(sol) |-> Count(sol, c)]

\* first pass: position i is Exact when the letters agree, and that use of
\* the solution's letter is taken from the remaining counts
RECURSIVE FirstPass(_, _, _, _, _)
FirstPass(input, sol, marks, remaining, i) ==
    IF i > Len(input) THEN [marks |-> marks, remaining |-> remaining]
    ELSE IF input[i] = sol[i]
         THEN FirstPass(input, sol, [marks EXCEPT ![i] = "Exact"],
                        [remaining EXCEPT ![sol[i]] = @ - 1], i + 1)
         ELSE FirstPass(input, sol, marks, remaining, i + 1)

\* second pass, left to right over the positions that are not Exact
RECURSIVE SecondPassFrom(_, _, _, _)
SecondPassFrom(input, marks, remaining, i) ==
    IF i > Len(input) THEN marks
    ELSE IF marks[i] = "Exact"
         THEN SecondPassFrom(input, marks, remaining, i + 1)
         ELSE IF remaining[input[i]] > 0
              THEN SecondPassFrom(input, [marks EXCEPT ![i] = "Present"],
                              [remaining EXCEPT ![input[i]] = @ - 1], i + 1)
              ELSE SecondPassFrom(input, [marks EXCEPT ![i] = "Absent"],
                              remaining, i + 1)

\* the second pass walked from the last position to the first
RECURSIVE SecondPassMirrored(_, _, _, _)
SecondPassMirrored(input, marks, remaining, i) ==
    IF i < 1 THEN marks
    ELSE IF marks[i] = "Exact"
         THEN SecondPassMirrored(input, marks, remaining, i - 1)
         ELSE IF remaining[input[i]] > 0
              THEN SecondPassMirrored(input, [marks EXCEPT ![i] = "Present"],
                              [remaining EXCEPT ![input[i]] = @ - 1], i - 1)
              ELSE SecondPassMirrored(input, marks, remaining, i - 1)

\* a faulty diff: no first pass, every position goes through the counting pass
SecondPassOnly(input, sol) ==
    SecondPassFrom(input, [i \in 1..Len(input) |-> "Absent"],
                   Histogram(input, sol), 1)

\* a faulty diff: Present whenever the letter occurs in the solution at all
NoCountPass(input, sol) ==
    [i \in 1..Len(input) |->
        IF input[i] = sol[i] THEN "Exact"
        ELSE IF Count(sol, input[i]) > 0 THEN "Present" ELSE "Absent"]

\* a faulty diff: the second pass walks the guess from the right
RightToLeftPass(input, sol) ==
    LET p1 == FirstPass(input, sol, [i \in 1..Len(input) |-> "Absent"],
                        Histogram(input, sol), 1)
    IN  SecondPassMirrored(input, p1.marks, p1.remaining, Len(input))

\* diff fails (it returns a Result) unless both words have five letters
diff_ok(input, sol) == Len(input) = WordLen /\ Len(sol) = WordLen

diff(input, sol) ==
    LET p1 == FirstPass(input, sol, [i \in 1..Len(input) |-> "Absent"],
                        Histogram(input, sol), 1)
    IN  SecondPassFrom(input, p1.marks, p1.remaining, 1)

----------------------------------------------------------------------------
(* words::ACCEPT and words::FINAL, the two word lists, cut down to a few   *)
(* words over the letters a and b                                          *)

Aaaaa == W(<<"a", "a", "a", "a", "a">>)

Abbab == W(<<"a", "b", "b", "a", "b">>)

Babba == W(<<"b", "a", "b", "b", "a">>)

\* acceptable guesses that are not solutions
ACCEPT == {Aaaaa}

\* valid solutions, indexed by the day
FINAL == <<Abbab, Babba>>

InDictionary(w) == w \in ACCEPT \/ w \in Range(FINAL)

\* logic::get_solution: the day's index into the solution list
get_solution(day) == FINAL[(day % Len(FINAL)) + 1]

----------------------------------------------------------------------------
(* Game: the constructors of src/src/game.rs *)

new_raw(sol, gt) == [solution |-> sol, guesses |-> <<>>, game_type |-> gt]

custom(sol) == new_raw(sol, [tag |-> "Custom"])

from_day(day) == new_raw(get_solution(day), [tag |-> "Daily", day |-> day])

\* words a caller passes to Game::custom: a dictionary word, and a word of
\* two letters
CustomWords == {Aaaaa, W(<<"a", "b">>)}

Days == 0..MaxDay

NewGames == {custom(w) : w \in CustomWords} \cup {from_day(d) : d \in Days}

\* the games a Controller is given: the State is created over a Word, which
\* has five letters
NewStates == {g \in NewGames : Len(g.solution) = WordLen}

----------------------------------------------------------------------------
(* Keyboard: the best known status of each letter *)

Rank(k) == CASE k = "Unknown" -> 0
             [] k = "Absent"  -> 1
             [] k = "Present" -> 2
             [] k = "Exact"   -> 3

Best(k1, k2) == IF Rank(k2) > Rank(k1) THEN k2 ELSE k1

KeyboardDefault == [c \in Letters |-> "Unknown"]

RECURSIVE KeyboardPushFrom(_, _, _, _)
KeyboardPushFrom(kb, w, matches, i) ==
    IF i > Len(w) THEN kb
    ELSE KeyboardPushFrom([kb EXCEPT ![w[i]] = Best(@, matches[i])],
                          w, matches, i + 1)

\* Keyboard::push(word, matches)
KeyboardPush(kb, w, matches) == KeyboardPushFrom(kb, w, matches, 1)

----------------------------------------------------------------------------
(* State: the GameState of the library, and its guess operation *)

InProgress == [tag |-> "InProgress"]

Won(n) == [tag |-> "Won", turns |-> n]

Lost == [tag |-> "Lost"]

\* why State::guess refuses w in state (oc, ...), "Ok" when it does not
GuessError(oc, w) ==
    IF oc.tag # "InProgress" THEN "GameOver"
    ELSE IF Len(w) # WordLen THEN "WrongLength"
    ELSE IF ~InDictionary(w) THEN "NotInDictionary"
    ELSE "Ok"

\* the outcome after w was appended as guess number n
OutcomeAfter(sol, w, n) ==
    IF w = sol THEN Won(n)
    ELSE IF n = MaxGuesses THEN Lost
    ELSE InProgress

\* State::guess: the error, the matches and the state it leaves
StateGuess(sol, gs, oc, w) ==
    LET e == GuessError(oc, w)
    IN  IF e # "Ok"
        THEN [err |-> e, matches |-> <<>>, guesses |-> gs, outcome |-> oc]
        ELSE [err |-> e,
              matches |-> diff(w, sol),
              guesses |-> Append(gs, [word |-> w, matches |-> diff(w, sol)]),
              outcome |-> OutcomeAfter(sol, w, Len(gs) + 1)]

\* State::game_over: Some(win) once the game has ended
game_over(oc) ==
    IF oc.tag = "Won" THEN [tag |-> "Some", win |-> TRUE]
    ELSE IF oc.tag = "Lost" THEN [tag |-> "Some", win |-> FALSE]
    ELSE [tag |-> "None"]

----------------------------------------------------------------------------
(* The shareable summary *)

\* std::char::from_digit(n, radix), for a radix up to 10
from_digit(n, radix) ==
    IF n >= 0 /\ n < radix THEN [tag |-> "Some", c |-> 48 + n]
    ELSE [tag |-> "None"]

\* 'X'
LossScore == 88

\* a faulty share: the summary is built without the latest guess
RawShareSkipsLast(gt, sol, gs, score) ==
    [game_type |-> gt,
     matches |-> [i \in 1..(Len(gs) - 1) |-> diff(gs[i], sol)],
     score |-> score]

\* Game::share(score): one diff per guess, in guess order
RawShare(gt, sol, gs, score) ==
    [game_type |-> gt,
     matches |-> [i \in DOMAIN gs |-> diff(gs[i], sol)],
     score |-> score]

\* cl_wordle's Game::share(): the matches the State kept, and the score
StateShare(gt, gs, oc) ==
    [game_type |-> gt,
     matches |-> [i \in DOMAIN gs |-> gs[i].matches],
     score |-> IF oc.tag = "Won" THEN from_digit(oc.turns, 10).c ELSE LossScore]

\* Display for GameType: the day's number, or "custom"
GameTypeFmt(gt) == IF gt.tag = "Daily" THEN <<"day", gt.day>> ELSE <<"custom">>

\* Display for Match: one glyph per kind
Glyph(k) == CASE k = "Exact"   -> "Green"
              [] k = "Present" -> "Amber"
              [] k = "Absent"  -> "Black"

\* Display for Matches: the glyphs of a guess, in position order
MatchesFmt(m) == [j \in DOMAIN m |-> Glyph(m[j])]

\* Display for GameShare: the text as its lines, "Wordle {game_type}
\* {score}/6" and then one line per entry of matches
GameShareFmt(s) ==
    <<[label |-> "Wordle", game_type |-> GameTypeFmt(s.game_type),
       score |-> s.score, of |-> MaxGuesses]>>
    \o [i \in DOMAIN s.matches |-> MatchesFmt(s.matches[i])]

----------------------------------------------------------------------------
(* Key events *)

\* characters the terminal delivers: a, b, A, 1 and a non-ASCII letter
KeyChars == {Ord("a"), Ord("b"), 65, 49, 233}

Pop(w) == IF Len(w) = 0 THEN w ELSE SubSeq(w, 1, Len(w) - 1)

Running == [tag |-> "Running"]

----------------------------------------------------------------------------
(* Game::start, the raw-terminal loop (src/src/game.rs) *)

RawInit ==
    /\ variant = "raw"
    /\ \E g \in NewGames :
          /\ solution = g.solution
          /\ guesses = g.guesses
          /\ game_type = g.game_type
    /\ outcome = InProgress
    /\ keyboard = <<>>
    /\ word = <<>>
    /\ pc = "input"
    /\ ret = Running
    /\ last = "none"
    /\ dInput = <<>> /\ dSolution = <<>> /\ dMatches = <<>>
    /\ pair = <<>>

RawAt == variant = "raw" /\ pc = "input"

\* Key::Esc => return Ok(None)
RawEsc ==
    /\ RawAt
    /\ pc' = "done"
    /\ ret' = [tag |-> "None"]
    /\ word' = <<>>
    /\ UNCHANGED <<variant, game_type, solution, guesses, outcome, keyboard,
                   last, diffVars, pair>>

\* stdin.keys() ends: Ok(None)
RawEof ==
    /\ RawAt
    /\ pc' = "done"
    /\ ret' = [tag |-> "None"]
    /\ word' = <<>>
    /\ UNCHANGED <<variant, game_type, solution, guesses, outcome, keyboard,
                   last, diffVars, pair>>

\* the guard of the arm that pushes a character
RawPushes(c, w) == is_ascii(c) /\ Len(w) < WordLen

\* Key::Char(c) if c.is_ascii() && word.len() < 5
RawChar(c) ==
    /\ RawAt
    /\ RawPushes(c, word)
    /\ word' = Append(word, to_ascii_lowercase(c))
    /\ UNCHANGED <<variant, game_type, solution, guesses, outcome, keyboard,
                   pc, ret, last, diffVars, pair>>

\* draw_valid: one diff per guess, any of which may fail
draw_valid_ok(gs, sol) == \A i \in DOMAIN gs : diff_ok(gs[i], sol)

\* a faulty dictionary test: the solution list is not consulted
RawAcceptsAcceptOnly(w) == w \in ACCEPT

\* the dictionary test of line 95, negated: the candidate is a guess
RawAccepts(w) == ~(~(w \in ACCEPT) /\ ~(w \in Range(FINAL)))

\* a faulty score: taken before the guess is counted
RawWinScoreBeforePush(n) == from_digit(n - 1, 10)

\* the score of a win with n guesses in the list
RawWinScore(n) == from_digit(n, 10)

\* a faulty loss test: the game is lost one guess late
RawIsLossLate(n) == n > MaxGuesses

\* the test that ends the game as lost
RawIsLoss(n) == n >= MaxGuesses

\* a faulty push: the new guess goes to the front of the list
RawPushFront(gs, w) == <<w>> \o gs

\* self.guesses.push(word.clone())
RawPush(gs, w) == Append(gs, w)

\* a faulty return: the guess count is tested before the equality with
\* the solution
RawReturnLossFirst(gt, sol, gs, w) ==
    IF ~draw_valid_ok(gs, sol) THEN [tag |-> "Err"]
    ELSE IF RawIsLoss(Len(gs))
         THEN [tag |-> "Some", share |-> RawShare(gt, sol, gs, LossScore)]
    ELSE IF w = sol
         THEN IF RawWinScore(Len(gs)).tag = "None" THEN [tag |-> "Panic"]
              ELSE [tag |-> "Some",
                    share |-> RawShare(gt, sol, gs, RawWinScore(Len(gs)).c)]
    ELSE Running

\* a faulty return: a lost game ends as Esc does, with Ok(None)
RawReturnNoneOnLoss(gt, sol, gs, w) ==
    IF ~draw_valid_ok(gs, sol) THEN [tag |-> "Err"]
    ELSE IF w = sol
         THEN IF RawWinScore(Len(gs)).tag = "None" THEN [tag |-> "Panic"]
              ELSE [tag |-> "Some",
                    share |-> RawShare(gt, sol, gs, RawWinScore(Len(gs)).c)]
    ELSE IF RawIsLoss(Len(gs))
         THEN [tag |-> "None"]
    ELSE Running

\* what start() returns after candidate w became guess number Len(gs), or
\* Running when the loop goes on
RawReturn(gt, sol, gs, w) ==
    IF ~draw_valid_ok(gs, sol) THEN [tag |-> "Err"]
    ELSE IF w = sol
         THEN IF RawWinScore(Len(gs)).tag = "None" THEN [tag |-> "Panic"]
              ELSE [tag |-> "Some",
                    share |-> RawShare(gt, sol, gs, RawWinScore(Len(gs)).c)]
    ELSE IF RawIsLoss(Len(gs))
         THEN [tag |-> "Some", share |-> RawShare(gt, sol, gs, LossScore)]
    ELSE Running

\* Key::Char('\n') if word.len() == 5
RawSubmit ==
    /\ RawAt
    /\ ~RawPushes(NewLine, word)
    /\ Len(word) = WordLen
    /\ IF ~RawAccepts(word)
       THEN \* draw_invalid, which redraws the guesses first
            /\ guesses' = guesses
            /\ last' = "NotInDictionary"
            /\ ret' = IF draw_valid_ok(guesses, solution) THEN Running
                      ELSE [tag |-> "Err"]
            /\ word' = IF ret' = Running THEN word ELSE <<>>
       ELSE /\ guesses' = RawPush(guesses, word)
            /\ last' = "Ok"
            /\ ret' = RawReturn(game_type, solution, guesses', word)
            /\ word' = <<>>
    /\ pc' = IF ret' = Running THEN "input" ELSE "done"
    /\ UNCHANGED <<variant, game_type, solution, outcome, keyboard, diffVars, pair>>

\* Key::Backspace
RawBackspace ==
    /\ RawAt
    /\ word' = Pop(word)
    /\ UNCHANGED <<variant, game_type, solution, guesses, outcome, keyboard,
                   pc, ret, last, diffVars, pair>>

\* _ => {}: a character no arm takes
RawCharIgnored(c) ==
    /\ RawAt
    /\ ~RawPushes(c, word)
    /\ ~(c = NewLine /\ Len(word) = WordLen)
    /\ UNCHANGED vars

\* _ => {}: another key, an arrow for one
RawOtherKey ==
    /\ RawAt
    /\ UNCHANGED vars

RawNext ==
    \/ RawEsc
    \/ RawEof
    \/ \E c \in KeyChars \cup {NewLine} : RawChar(c)
    \/ RawSubmit
    \/ RawBackspace
    \/ \E c \in KeyChars \cup {NewLine} : RawCharIgnored(c)
    \/ RawOtherKey

----------------------------------------------------------------------------
(* Controller::run, the TUI loop (src/src/bin/wordle/controller/tui.rs) *)

TuiInit ==
    /\ variant = "tui"
    /\ \E g \in NewStates :
          /\ solution = g.solution
          /\ guesses = g.guesses
          /\ game_type = g.game_type
    /\ outcome = InProgress
    /\ keyboard = KeyboardDefault
    /\ word = <<>>
    /\ pc = "input"
    /\ ret = Running
    /\ last = "none"
    /\ dInput = <<>> /\ dSolution = <<>> /\ dMatches = <<>>
    /\ pair = <<>>

TuiAt == variant = "tui" /\ pc = "input"

\* a faulty Controller::guess: the keyboard is folded before the guess is
\* known to have succeeded
ControllerGuessPushFirst(sol, gs, oc, kb, w) ==
    LET r == StateGuess(sol, gs, oc, w)
    IN  [err |-> r.err, guesses |-> r.guesses, outcome |-> r.outcome,
         keyboard |-> IF Len(w) = WordLen /\ Len(sol) = WordLen
                      THEN KeyboardPush(kb, w, diff(w, sol)) ELSE kb]

\* a faulty Controller::guess: the keyboard is never folded
ControllerGuessNoPush(sol, gs, oc, kb, w) ==
    LET r == StateGuess(sol, gs, oc, w)
    IN  [err |-> r.err, guesses |-> r.guesses, outcome |-> r.outcome,
         keyboard |-> kb]

\* Controller::guess: State::guess, then Keyboard::push when it succeeded
ControllerGuess(sol, gs, oc, kb, w) ==
    LET r == StateGuess(sol, gs, oc, w)
    IN  [err |-> r.err, guesses |-> r.guesses, outcome |-> r.outcome,
         keyboard |-> IF r.err # "Ok" THEN kb
                      ELSE KeyboardPush(kb, w, r.matches)]

\* KeyCode::Esc => return Ok(None)
TuiEsc ==
    /\ TuiAt
    /\ pc' = "done"
    /\ ret' = [tag |-> "None"]
    /\ word' = <<>>
    /\ UNCHANGED <<variant, game_type, solution, guesses, outcome, keyboard,
                   last, diffVars, pair>>

\* a faulty guard: the length of the buffer is not tested
TuiPushesNoCap(c, w) == is_ascii_alphabetic(c)

\* the guard of the arm that pushes a character
TuiPushes(c, w) == is_ascii_alphabetic(c) /\ Len(w) < WordLen

\* KeyCode::Char(c) if c.is_ascii_alphabetic() && word.len() < 5
TuiChar(c) ==
    /\ TuiAt
    /\ TuiPushes(c, word)
    /\ word' = Append(word, to_ascii_lowercase(c))
    /\ UNCHANGED <<variant, game_type, solution, guesses, outcome, keyboard,
                   pc, ret, last, diffVars, pair>>

\* a faulty first loop: it never breaks
TuiPcAfterNoBreak(oc) == "input"

\* where the first loop goes after a guess succeeded: it breaks once the
\* game is over
TuiPcAfter(oc) == IF game_over(oc).tag = "Some" THEN "ack" ELSE "input"

\* KeyCode::Enter if word.len() == 5
TuiSubmit ==
    /\ TuiAt
    /\ Len(word) = WordLen
    /\ LET r == ControllerGuess(solution, guesses, outcome, keyboard, word)
       IN  /\ guesses' = r.guesses
           /\ outcome' = r.outcome
           /\ keyboard' = r.keyboard
           /\ last' = r.err
           /\ IF r.err = "Ok"
              THEN /\ pc' = TuiPcAfter(r.outcome)
                   /\ word' = IF pc' = "input" THEN <<>> ELSE word
              ELSE \* display_invalid
                   /\ pc' = pc
                   /\ word' = word
    /\ UNCHANGED <<variant, game_type, solution, ret, diffVars, pair>>

\* KeyCode::Backspace
TuiBackspace ==
    /\ TuiAt
    /\ word' = Pop(word)
    /\ UNCHANGED <<variant, game_type, solution, guesses, outcome, keyboard,
                   pc, ret, last, diffVars, pair>>

\* _ => {}: a character the guard refuses
TuiCharIgnored(c) ==
    /\ TuiAt
    /\ ~TuiPushes(c, word)
    /\ UNCHANGED vars

\* _ => {}: Enter on a buffer of fewer than 5 characters
TuiEnterIgnored ==
    /\ TuiAt
    /\ Len(word) # WordLen
    /\ UNCHANGED vars

\* _ => {}: another key, or an event that is no key
TuiOtherKey ==
    /\ TuiAt
    /\ UNCHANGED vars

\* second loop: KeyCode::Enter | KeyCode::Esc => break, then
\* Ok(Some(self.game.share()))
TuiAck ==
    /\ variant = "tui"
    /\ pc = "ack"
    /\ pc' = "done"
    /\ ret' = [tag |-> "Some", share |-> StateShare(game_type, guesses, outcome)]
    /\ word' = <<>>
    /\ UNCHANGED <<variant, game_type, solution, guesses, outcome, keyboard,
                   last, diffVars, pair>>

\* second loop: _ => {}
TuiAckIgnored ==
    /\ variant = "tui"
    /\ pc = "ack"
    /\ UNCHANGED vars

TuiNext ==
    \/ TuiEsc
    \/ \E c \in KeyChars : TuiChar(c)
    \/ TuiSubmit
    \/ TuiBackspace
    \/ \E c \in KeyChars : TuiCharIgnored(c)
    \/ TuiEnterIgnored
    \/ TuiOtherKey
    \/ TuiAck
    \/ TuiAckIgnored

----------------------------------------------------------------------------
(* A client of the library calling submit_guess itself, with candidates   *)
(* of any length and at any time, also after the game has ended           *)

ApiInit ==
    /\ variant = "api"
    /\ \E g \in NewStates :
          /\ solution = g.solution
          /\ guesses = g.guesses
          /\ game_type = g.game_type
    /\ outcome = InProgress
    /\ keyboard = KeyboardDefault
    /\ word = <<>>
    /\ pc = "api"
    /\ ret = Running
    /\ last = "none"
    /\ dInput = <<>> /\ dSolution = <<>> /\ dMatches = <<>>
    /\ pair = <<>>

ApiWords == {Aaaaa, Abbab, Babba,
             W(<<"b", "b", "b", "b", "b">>),
             W(<<"a", "b">>),
             W(<<"a", "b", "b", "a", "b", "a">>)}

\* submit_guess(w): State::guess and the fold into the keyboard
ApiGuess(w) ==
    /\ variant = "api"
    /\ LET r == ControllerGuess(solution, guesses, outcome, keyboard, w)
       IN  /\ guesses' = r.guesses
           /\ outcome' = r.outcome
           /\ keyboard' = r.keyboard
           /\ last' = r.err
    /\ word' = w
    /\ UNCHANGED <<variant, game_type, solution, pc, ret, diffVars, pair>>

ApiNext == \E w \in ApiWords : ApiGuess(w)

----------------------------------------------------------------------------
(* The programs *)

Init == RawInit \/ TuiInit \/ ApiInit

Next == RawNext \/ TuiNext \/ ApiNext

Spec == Init /\ [][Next]_vars

----------------------------------------------------------------------------
(* The Matcher alone: every pair of words over a small alphabet, and the   *)
(* fixtures of the specification's section 8                               *)

ScoreAlphabet == {Ord(Lower[i]) : i \in 1..AlphaSize}

Abbey == W(<<"a", "b", "b", "e", "y">>)

Bobby == W(<<"b", "o", "b", "b", "y">>)

Fixtures == {Abbey, Bobby}

ScoreWords == [1..WordLen -> ScoreAlphabet] \cup Fixtures

NoGame ==
    /\ variant = "score"
    /\ game_type = [tag |-> "Custom"]
    /\ solution = <<>>
    /\ guesses = <<>>
    /\ outcome = [tag |-> "InProgress"]
    /\ keyboard = <<>>
    /\ word = <<>>
    /\ pc = "done"
    /\ ret = [tag |-> "Running"]
    /\ last = "none"

ScoreInit ==
    /\ NoGame
    /\ dInput \in ScoreWords
    /\ dSolution \in ScoreWords
    /\ dMatches = <<>>
    /\ pair = <<>>

\* one call of logic::diff(input, solution)
DiffCall ==
    /\ variant = "score"
    /\ dMatches = <<>>
    /\ diff_ok(dInput, dSolution)
    /\ dMatches' = diff(dInput, dSolution)
    /\ UNCHANGED <<dInput, dSolution, pair>>
    /\ UNCHANGED gameVars

ScoreNext == DiffCall

SpecScore == ScoreInit /\ [][ScoreNext]_vars

----------------------------------------------------------------------------
(* Claims about the Matcher, checked under SpecScore *)

Scored == variant = "score" /\ dMatches # <<>>

Marked(c) ==
    {i \in DOMAIN dInput : dInput[i] = c /\ dMatches[i] \in {"Exact", "Present"}}

Min(a, b) == IF a < b THEN a ELSE b

\* C1: a score has exactly 5 entries, and entry i is Exact exactly when the
\* guess and the solution hold the same letter at i (so a guess equal to
\* the solution scores all-Exact).
C1_ExactIffSameLetter ==
    Scored =>
        /\ Len(dMatches) = WordLen
        /\ \A i \in 1..WordLen :
              /\ dMatches[i] \in {"Exact", "Present", "Absent"}
              /\ (dMatches[i] = "Exact") <=> (dInput[i] = dSolution[i])
        /\ (dInput = dSolution => \A i \in 1..WordLen : dMatches[i] = "Exact")

\* C1 witness: a guess equal to the solution has been scored, and so has a
\* guess that agrees with the solution at some positions only.
C1_Witness ==
    /\ Scored
    /\ dInput = dSolution

C1_WitnessPartial ==
    /\ Scored
    /\ \E i, j \in 1..WordLen : dInput[i] = dSolution[i] /\ dInput[j] # dSolution[j]

\* C2: for every letter c the positions of the guess holding c that are
\* marked Exact or Present number min(count of c in guess, count of c in
\* solution); among the non-Exact occurrences of c the Present marks are
\* the leftmost ones; a letter that is not in the solution is Absent
\* wherever it stands.
C2_MarksAreMinOfCounts ==
    Scored =>
        /\ \A c \in Range(dInput) :
              Cardinality(Marked(c)) = Min(Count(dInput, c), Count(dSolution, c))
        /\ \A i, j \in 1..WordLen :
              (i < j /\ dInput[i] = dInput[j] /\ dMatches[j] = "Present"
                 /\ dMatches[i] # "Exact") => dMatches[i] = "Present"
        /\ \A i \in 1..WordLen :
              Count(dSolution, dInput[i]) = 0 => dMatches[i] = "Absent"

\* C2 witness: a letter occurring once in the solution and twice in the
\* guess, none of them Exact: the left one is Present, the right one Absent.
C2_Witness ==
    /\ Scored
    /\ \E c \in Range(dInput) :
          /\ Count(dSolution, c) = 1
          /\ Count(dInput, c) = 2
          /\ \E i, j \in 1..WordLen :
                /\ i < j /\ dInput[i] = c /\ dInput[j] = c
                /\ dMatches[i] = "Present" /\ dMatches[j] = "Absent"

FixtureScored == Scored /\ dInput = Bobby /\ dSolution = Abbey

\* C3 as stated: BOBBY against ABBEY scores position 0 Absent or Present,
\* position 1 Absent, position 2 Exact, position 3 Present, position 4 Exact.
C3_AsStated ==
    FixtureScored =>
        /\ dMatches[1] \in {"Absent", "Present"}
        /\ dMatches[2] = "Absent"
        /\ dMatches[3] = "Exact"
        /\ dMatches[4] = "Present"
        /\ dMatches[5] = "Exact"

\* C3 amended: BOBBY against ABBEY scores Present, Absent, Exact, Absent,
\* Exact: the one B left after the Exact at position 2 goes to position 0,
\* the leftmost non-Exact B, and position 3 is Absent.
C3_Fixture ==
    FixtureScored =>
        dMatches = <<"Present", "Absent", "Exact", "Absent", "Exact">>

\* C3 witness: the fixture has been scored.
C3_Witness == FixtureScored

----------------------------------------------------------------------------
(* Both loops side by side: Game::start and Controller::run are started   *)
(* on the same game and read the same keys.  Each loop is a function from *)
(* its state and a key to its next state, built from the arms above.      *)

\* a key of the keyboard; c is the character of a character key
BothKeys ==
    {[kind |-> "Char", c |-> c] : c \in KeyChars}
        \cup {[kind |-> k, c |-> 0] : k \in {"Enter", "Backspace", "Esc", "Other"}}

\* the state of one loop on game g, kb being what it keeps as keyboard
LoopStart(g, kb) ==
    [game_type |-> g.game_type, solution |-> g.solution, guesses |-> g.guesses,
     outcome |-> InProgress, keyboard |-> kb, word |-> <<>>, pc |-> "input",
     ret |-> Running, last |-> "none"]

\* termion reports the Enter key as Key::Char('\n')
RawEvent(k) == IF k.kind = "Enter" THEN [kind |-> "Char", c |-> NewLine] ELSE k

\* one turn of the loop of Game::start on key k
RawKey(st, k) ==
    LET ev == RawEvent(k)
    IN  IF st.pc # "input" THEN st
        ELSE IF ev.kind = "Esc"
             THEN [st EXCEPT !.pc = "done", !.ret = [tag |-> "None"],
                             !.word = <<>>]
        ELSE IF ev.kind = "Char" /\ RawPushes(ev.c, st.word)
             THEN [st EXCEPT !.word = Append(@, to_ascii_lowercase(ev.c))]
        ELSE IF ev.kind = "Char" /\ ev.c = NewLine /\ Len(st.word) = WordLen
             THEN IF ~RawAccepts(st.word)
                  THEN IF draw_valid_ok(st.guesses, st.solution)
                       THEN [st EXCEPT !.last = "NotInDictionary"]
                       ELSE [st EXCEPT !.last = "NotInDictionary",
                                       !.ret = [tag |-> "Err"],
                                       !.pc = "done", !.word = <<>>]
                  ELSE LET gs == RawPush(st.guesses, st.word)
                           r  == RawReturn(st.game_type, st.solution, gs, st.word)
                       IN  [st EXCEPT !.guesses = gs, !.last = "Ok", !.ret = r,
                                      !.word = <<>>,
                                      !.pc = IF r = Running THEN "input"
                                             ELSE "done"]
        ELSE IF ev.kind = "Backspace"
             THEN [st EXCEPT !.word = Pop(@)]
        ELSE st

\* one turn of the loops of Controller::run on key k
TuiKey(st, k) ==
    IF st.pc = "ack"
    THEN IF k.kind \in {"Enter", "Esc"}
         THEN [st EXCEPT !.pc = "done", !.word = <<>>,
                         !.ret = [tag |-> "Some",
                                  share |-> StateShare(st.game_type, st.guesses,
                                                       st.outcome)]]
         ELSE st
    ELSE IF st.pc # "input" THEN st
    ELSE IF k.kind = "Esc"
         THEN [st EXCEPT !.pc = "done", !.ret = [tag |-> "None"], !.word = <<>>]
    ELSE IF k.kind = "Char" /\ TuiPushes(k.c, st.word)
         THEN [st EXCEPT !.word = Append(@, to_ascii_lowercase(k.c))]
    ELSE IF k.kind = "Enter" /\ Len(st.word) = WordLen
         THEN LET r == ControllerGuess(st.solution, st.guesses, st.outcome,
                                       st.keyboard, st.word)
                  to == IF r.err = "Ok" THEN TuiPcAfter(r.outcome) ELSE st.pc
              IN  [st EXCEPT !.guesses = r.guesses, !.outcome = r.outcome,
                             !.keyboard = r.keyboard, !.last = r.err,
                             !.pc = to,
                             !.word = IF r.err = "Ok" /\ to = "input"
                                      THEN <<>> ELSE @]
    ELSE IF k.kind = "Backspace"
         THEN [st EXCEPT !.word = Pop(@)]
    ELSE st

\* what the raw loop, which keeps no outcome, says of the game: what the
\* score of the summary it returned says
RawOutcomeOf(st) ==
    IF st.ret.tag # "Some" THEN InProgress
    ELSE IF st.ret.share.score = LossScore THEN Lost
    ELSE Won(st.ret.share.score - 48)

\* the words of the guess list of the State of the TUI loop
TuiGuessWordsOf(st) == [i \in DOMAIN st.guesses |-> st.guesses[i].word]

\* the two loops cannot be told apart: same buffer while both read
\* letters, same guesses, same outcome, and both or neither have ended
\* without a summary
Agree(p) ==
    /\ (p.raw.pc = "input" /\ p.tui.pc = "input") => p.raw.word = p.tui.word
    /\ p.raw.guesses = TuiGuessWordsOf(p.tui)
    /\ RawOutcomeOf(p.raw) = p.tui.outcome
    /\ (p.raw.ret.tag = "None") <=> (p.tui.ret.tag = "None")

BothInit ==
    /\ variant = "both"
    /\ game_type = [tag |-> "Custom"]
    /\ solution = <<>>
    /\ guesses = <<>>
    /\ outcome = InProgress
    /\ keyboard = <<>>
    /\ word = <<>>
    /\ pc = "done"
    /\ ret = Running
    /\ last = "none"
    /\ dInput = <<>> /\ dSolution = <<>> /\ dMatches = <<>>
    /\ \E g \in NewStates :
          pair = [raw |-> LoopStart(g, <<>>),
                  tui |-> LoopStart(g, KeyboardDefault)]

\* key k is pressed and each loop takes its turn on it; the run is followed
\* up to the first key after which the loops differ
BothKey(k) ==
    /\ variant = "both"
    /\ pair.raw.pc # "done" \/ pair.tui.pc # "done"
    /\ Agree(pair)
    /\ pair' = [raw |-> RawKey(pair.raw, k), tui |-> TuiKey(pair.tui, k)]
    /\ UNCHANGED <<gameVars, diffVars>>

BothNext == \E k \in BothKeys : BothKey(k)

SpecBoth == BothInit /\ [][BothNext]_vars

\* the state of the loop that runs alone under Spec, as RawKey and TuiKey
\* take it
LoopRec ==
    [game_type |-> game_type, solution |-> solution, guesses |-> guesses,
     outcome |-> outcome, keyboard |-> keyboard, word |-> word, pc |-> pc,
     ret |-> ret, last |-> last]

\* RawKey and TuiKey are the loops of Spec: every step a loop takes there
\* is its turn on some key (end of input acts as Esc does)
StepsAreKeyTurns ==
    [][/\ variant = "raw" => \E k \in BothKeys : LoopRec' = RawKey(LoopRec, k)
       /\ variant = "tui" => \E k \in BothKeys : LoopRec' = TuiKey(LoopRec, k)]_vars

\* and every turn on a key is a step the loop can take there
KeyTurnsAreSteps ==
    /\ (variant = "raw" /\ pc # "done") =>
          \A k \in BothKeys : ENABLED (RawNext /\ LoopRec' = RawKey(LoopRec, k))
    /\ (variant = "tui" /\ pc # "done") =>
          \A k \in BothKeys : ENABLED (TuiNext /\ LoopRec' = TuiKey(LoopRec, k))

----------------------------------------------------------------------------
(* Claims about the game, checked under Spec *)

Playing == variant \in {"raw", "tui", "api"}

HasKeyboard == variant \in {"tui", "api"}

\* the words of the guess list, whichever program holds it
GuessWords ==
    IF variant = "raw" THEN guesses
    ELSE [i \in DOMAIN guesses |-> guesses[i].word]

\* the outcome: the State's field, and for the raw loop, which keeps none,
\* what the score of the summary it returned says
Outcome ==
    IF variant # "raw" THEN outcome
    ELSE IF ret.tag # "Some" THEN InProgress
    ELSE IF ret.share.score = LossScore THEN Lost
    ELSE Won(ret.share.score - 48)

Terminal == Playing /\ Outcome.tag # "InProgress"

\* the classifications letter c received in the accepted guesses
Observed(c) ==
    {k \in {"Exact", "Present", "Absent"} :
        \E i \in DOMAIN guesses : \E j \in 1..WordLen :
            guesses[i].word[j] = c /\ guesses[i].matches[j] = k}

BestOf(S) ==
    IF "Exact" \in S THEN "Exact"
    ELSE IF "Present" \in S THEN "Present"
    ELSE IF "Absent" \in S THEN "Absent"
    ELSE "Unknown"

C4_KeyboardIsBest ==
    HasKeyboard => \A c \in Letters : keyboard[c] = BestOf(Observed(c))

C4_NeverRegresses ==
    [][HasKeyboard =>
          \A c \in Letters : Rank(keyboard'[c]) >= Rank(keyboard[c])]_vars

\* C4: the keyboard status of every letter is the best, under Exact >
\* Present > Absent > Unknown, of the classifications the letter received in
\* the accepted guesses, and no step lowers a letter's status.
C4_KeyboardMax == []C4_KeyboardIsBest /\ C4_NeverRegresses

\* C4 witness: a letter that is Exact on the keyboard although the latest
\* accepted guess classified it, and nowhere as Exact.
C4_Witness ==
    /\ variant = "tui"
    /\ Len(guesses) >= 2
    /\ LET g == guesses[Len(guesses)]
       IN  \E c \in Range(g.word) :
              /\ keyboard[c] = "Exact"
              /\ \A j \in 1..WordLen : g.word[j] = c => g.matches[j] # "Exact"

\* C5: when the outcome is Won(n), n is the number of accepted guesses,
\* 1 <= n <= 6, the n-th guess is the solution and no earlier guess is; the
\* conversion of the win's score to a digit never fails.
C5_WonMeansLastGuessIsSolution ==
    Playing =>
        /\ ret.tag # "Panic"
        /\ Outcome.tag = "Won" =>
              /\ Outcome.turns = Len(GuessWords)
              /\ Outcome.turns >= 1 /\ Outcome.turns <= MaxGuesses
              /\ GuessWords[Outcome.turns] = solution
              /\ \A i \in 1..(Outcome.turns - 1) : GuessWords[i] # solution
              /\ from_digit(Outcome.turns, 10).tag = "Some"
              /\ from_digit(Outcome.turns, 10).c \in 49..54

\* C5 witness: the raw loop has returned a summary for a win at the second
\* guess.
C5_Witness ==
    /\ variant = "raw"
    /\ Outcome = Won(2)
    /\ ret.share.score = 50

C5_WitnessTui ==
    /\ variant = "tui"
    /\ Outcome = Won(2)

NoneIsSolution == \A i \in DOMAIN GuessWords : GuessWords[i] # solution

\* C6: the guess list has at most 6 entries; the outcome is InProgress only
\* while fewer than 6 guesses are accepted and none is the solution; it is
\* Lost exactly when 6 guesses are accepted and none is the solution.
C6_OutcomeFollowsGuesses ==
    Playing =>
        /\ Len(guesses) <= MaxGuesses
        /\ Outcome.tag = "InProgress" =>
              Len(guesses) < MaxGuesses /\ NoneIsSolution
        /\ Outcome.tag = "Lost" <=>
              Len(guesses) = MaxGuesses /\ NoneIsSolution

\* C6 witness: the raw loop has lost.
C6_Witness ==
    /\ variant = "raw"
    /\ Outcome.tag = "Lost"
    /\ Len(guesses) = MaxGuesses

C6_WitnessTui ==
    /\ variant = "tui"
    /\ Outcome.tag = "Lost"

C7_Frozen ==
    [][Terminal =>
          /\ guesses' = guesses
          /\ Outcome' = Outcome
          /\ keyboard' = keyboard
          /\ (variant = "api" /\ word' \in {Aaaaa, Abbab, Babba}
                => last' = "GameOver")]_vars

C7_NoInput ==
    /\ (Terminal /\ variant = "raw") => pc = "done"
    /\ (Terminal /\ variant = "tui") => pc \in {"ack", "done"}

\* C7: once the outcome is Won or Lost no step changes the guess list, the
\* outcome or the keyboard; submit_guess then fails with GameOver, also for
\* a dictionary word; the raw loop has returned and the TUI loop is in its
\* second loop, which takes no guess input, or has returned.
C7_TerminalIsFinal == C7_Frozen /\ []C7_NoInput

\* C7 witness: a dictionary word was submitted after the game had ended and
\* was refused with GameOver.
C7_Witness ==
    /\ variant = "api"
    /\ Terminal
    /\ last = "GameOver"
    /\ word \in {Aaaaa, Abbab, Babba}

C7_WitnessAck ==
    /\ variant = "tui"
    /\ Terminal
    /\ pc = "ack"

\* C8: a submission that fails (wrong length, or in neither word list)
\* leaves the guess list, the outcome and the keyboard as they were,
\* however often it is repeated.
C8_FailureChangesNothing ==
    [][(Playing /\ last' \in {"WrongLength", "NotInDictionary"}) =>
          /\ guesses' = guesses
          /\ Outcome' = Outcome
          /\ keyboard' = keyboard]_vars

\* C8 witness: after an accepted guess, a candidate of the wrong length has
\* been refused, and in the TUI a word in neither list.
C8_Witness ==
    /\ variant = "api"
    /\ Len(guesses) > 0
    /\ last = "WrongLength"
    /\ Len(word) # WordLen

C8_WitnessTui ==
    /\ variant = "tui"
    /\ Len(guesses) > 0
    /\ last = "NotInDictionary"
    /\ Len(word) = WordLen

InEitherList(w) == w \in ACCEPT \cup Range(FINAL)

\* the candidate of a step: the buffer of the loop before it, the argument
\* of submit_guess after it
Accepted(w) ==
    /\ GuessWords' = Append(GuessWords, w)
    /\ last' = "Ok"

\* C9: while the game is InProgress a 5-letter candidate is accepted
\* (appended to the guess list) if and only if it is in the acceptable-guess
\* list or in the solution list; a word in neither is refused as
\* NotInDictionary and the guess list stays.
C9_AcceptedIffInDictionary ==
    [][(Playing /\ Outcome.tag = "InProgress") =>
          /\ (variant \in {"raw", "tui"} /\ guesses' # guesses) =>
                Len(word) = WordLen /\ InEitherList(word) /\ Accepted(word)
          /\ (variant \in {"raw", "tui"} /\ last' = "NotInDictionary"
                /\ last # "NotInDictionary") =>
                Len(word) = WordLen /\ ~InEitherList(word) /\ guesses' = guesses
          /\ (variant = "api" /\ Len(word') = WordLen) =>
                IF InEitherList(word') THEN Accepted(word')
                ELSE last' = "NotInDictionary" /\ guesses' = guesses]_vars

\* C9 witness: a word of the acceptable-guess list alone and a word of the
\* solution list alone have both been accepted by the raw loop, and a word
\* in neither list has been refused.
C9_Witness ==
    /\ variant = "raw"
    /\ \E i \in DOMAIN guesses : guesses[i] \in ACCEPT /\ guesses[i] \notin Range(FINAL)
    /\ \E i \in DOMAIN guesses : guesses[i] \in Range(FINAL) /\ guesses[i] \notin ACCEPT
    /\ last = "NotInDictionary"

\* C10 as stated: every word of the guess list and the solution have
\* exactly 5 letters, however the game was constructed.
C10_AllWordsHaveFiveLetters ==
    Playing =>
        /\ Len(solution) = WordLen
        /\ \A i \in DOMAIN GuessWords : Len(GuessWords[i]) = WordLen

\* the part of C10 that the loops themselves establish
C10_GuessesHaveFiveLetters ==
    Playing => \A i \in DOMAIN GuessWords : Len(GuessWords[i]) = WordLen

\* C11: no step changes the solution, and every step leaves the guess list
\* as it was or extends it by exactly one entry at its end: the entries
\* already in the list (word, and in the State its score) stay as they are
\* and where they are.
C11_GuessesAppendOnly ==
    [][Playing =>
          /\ solution' = solution
          /\ \/ guesses' = guesses
             \/ /\ Len(guesses') = Len(guesses) + 1
                /\ SubSeq(guesses', 1, Len(guesses)) = guesses]_vars

\* C11 witness: the raw loop holds three guesses, not all the same word,
\* and the State of the TUI two with their scores.
C11_Witness ==
    /\ variant = "raw"
    /\ Len(guesses) = 3
    /\ guesses[1] # guesses[2]
    /\ guesses[2] # guesses[3]

C11_WitnessTui ==
    /\ variant = "tui"
    /\ Len(guesses) = 2
    /\ guesses[1].word # guesses[2].word
    /\ guesses[1].matches = diff(guesses[1].word, solution)

\* the summary a loop returned and its text
Summary == ret.share

SummaryText == GameShareFmt(ret.share)

\* C12: a returned summary holds exactly one match line per accepted
\* guess, in guess order, line i being the 5-entry score of guess i against
\* the solution (Exact exactly where the letters agree), and its text has
\* these lines after the header; its score is the digit of the number of
\* guesses when the last guess is the solution and 'X' otherwise, which
\* happens only with 6 guesses.
C12_SummaryMatchesGuesses ==
    (Playing /\ ret.tag = "Some") =>
        /\ Len(Summary.matches) = Len(GuessWords)
        /\ Len(SummaryText) = 1 + Len(GuessWords)
        /\ \A i \in DOMAIN GuessWords :
              /\ Summary.matches[i] = diff(GuessWords[i], solution)
              /\ Len(SummaryText[i + 1]) = WordLen
              /\ \A j \in 1..WordLen :
                    (SummaryText[i + 1][j] = Glyph("Exact"))
                        <=> (GuessWords[i][j] = solution[j])
        /\ Len(GuessWords) >= 1
        /\ SummaryText[1].score = Summary.score
        /\ IF GuessWords[Len(GuessWords)] = solution
           THEN from_digit(Len(GuessWords), 10) = [tag |-> "Some", c |-> Summary.score]
           ELSE Summary.score = LossScore /\ Len(GuessWords) = MaxGuesses

\* C12 witness: the raw loop returned the summary of a win at the third
\* guess, and that of a loss.
C12_Witness ==
    /\ variant = "raw"
    /\ ret.tag = "Some"
    /\ Len(guesses) = 3
    /\ ret.share.score = 51

C12_WitnessLoss ==
    /\ variant = "raw"
    /\ ret.tag = "Some"
    /\ ret.share.score = LossScore
    /\ guesses[1] # guesses[2]

C12_WitnessTui ==
    /\ variant = "tui"
    /\ ret.tag = "Some"
    /\ Len(guesses) = 2

SixthGuessIsFirstMatch ==
    /\ Len(GuessWords) = MaxGuesses
    /\ GuessWords[MaxGuesses] = solution
    /\ \A i \in 1..(MaxGuesses - 1) : GuessWords[i] # solution

\* C14: when five guesses that are not the solution have been accepted and
\* the sixth accepted guess is the solution, the outcome is Won(6), and the
\* summary's score is the digit 6, not 'X'.
C14_SixthGuessWins ==
    (Playing /\ SixthGuessIsFirstMatch) =>
        /\ Outcome = Won(MaxGuesses)
        /\ variant = "raw" =>
              /\ ret.tag = "Some"
              /\ ret.share.score = 54
              /\ ret.share.score # LossScore
        /\ (variant = "tui" /\ pc = "done" /\ ret.tag = "Some") =>
              ret.share.score = 54

\* C14 witness: the raw loop has accepted the solution as its sixth guess.
C14_Witness ==
    /\ variant = "raw"
    /\ SixthGuessIsFirstMatch
    /\ pc = "done"

C14_WitnessTui ==
    /\ variant = "tui"
    /\ SixthGuessIsFirstMatch
    /\ ret.tag = "Some"

InLoop == variant \in {"raw", "tui"}

IsLowerLetter(c) == c >= 97 /\ c <= 122

\* C15 as stated: in both loops the candidate buffer has at most 5
\* characters, all of them lower-case letters, whatever keys were pressed:
\* a key that is no letter (a digit, Enter on a short buffer) adds nothing.
C15_BufferHoldsLowerLetters ==
    InLoop =>
        /\ Len(word) <= WordLen
        /\ \A i \in DOMAIN word : IsLowerLetter(word[i])

\* what the raw loop does keep: at most 5 characters, all ASCII, none of
\* them an upper-case letter; the TUI loop keeps all of C15
C15_BufferIsShortAscii ==
    InLoop =>
        /\ Len(word) <= WordLen
        /\ \A i \in DOMAIN word :
              is_ascii(word[i]) /\ to_ascii_lowercase(word[i]) = word[i]
        /\ variant = "tui" => \A i \in DOMAIN word : IsLowerLetter(word[i])

----------------------------------------------------------------------------
(* Claims about the two loops fed the same keys, checked under SpecBoth *)

\* C16: started on the same solution and fed the same sequence of keys,
\* the raw loop and the TUI loop hold the same buffer, accept and reject
\* the same candidates, and reach the same outcome at the same key
C16_LoopsAgree == variant = "both" => Agree(pair)

\* up to the first key on which they differ the loops do play: a game won
\* by both at the same key with three guesses
C16_PlayedTogether ==
    /\ variant = "both"
    /\ Agree(pair)
    /\ Len(pair.raw.guesses) = 3
    /\ pair.tui.outcome = Won(3)
    /\ pair.raw.ret.tag = "Some"

\* the loops part only on a key that makes the raw loop push a character
\* that is no letter, the TUI loop ignoring the key
C16_PartOnlyOnNonLetter ==
    [][(variant = "both" /\ Agree(pair) /\ ~Agree(pair')) =>
          /\ pair.raw.pc = "input" /\ pair.tui.pc = "input"
          /\ Len(pair'.raw.word) = Len(pair.raw.word) + 1
          /\ SubSeq(pair'.raw.word, 1, Len(pair.raw.word)) = pair.raw.word
          /\ ~IsLowerLetter(pair'.raw.word[Len(pair'.raw.word)])
          /\ pair'.tui = pair.tui]_vars

----------------------------------------------------------------------------
(* Claims about the candidate buffer, checked under Spec *)

Reading == InLoop /\ pc = "input"

Full == Len(word) = WordLen

\* the Enter key on a full buffer, in either loop
EnterOnFull == RawSubmit \/ TuiSubmit

\* the Backspace key, in either loop
BackspaceKey == RawBackspace \/ TuiBackspace

\* everything but the buffer and the error last shown
AllButWordAndLast ==
    <<variant, game_type, solution, guesses, outcome, keyboard, pc, ret,
      diffVars, pair>>

\* C17: the buffer is cleared exactly when a guess is accepted and the game
\* continues; after a rejected submission the buffer holds the same 5
\* characters and nothing else changed, a repeated Enter changes nothing at
\* all; while the buffer is full a character key is ignored and only
\* Backspace makes room; Backspace removes the last character and does
\* nothing on an empty buffer.
C17_BufferClearedOnAccept ==
    [][Reading =>
          /\ pc' = "input" => ((Full /\ word' = <<>>) <=> guesses' # guesses)
          /\ (EnterOnFull /\ ~InEitherList(word)) =>
                /\ word' = word
                /\ last' = "NotInDictionary"
                /\ UNCHANGED AllButWordAndLast
          /\ (EnterOnFull /\ ~InEitherList(word) /\ last = "NotInDictionary")
                => UNCHANGED vars
          /\ (Full /\ guesses' = guesses /\ pc' = "input") =>
                \/ word' = word
                \/ BackspaceKey /\ word' = Pop(word) /\ Len(word') = WordLen - 1
          /\ BackspaceKey =>
                /\ Len(word) > 0
                /\ word' = SubSeq(word, 1, Len(word) - 1)
                /\ UNCHANGED <<AllButWordAndLast, last>>
          /\ Len(word') <= WordLen]_vars

\* the raw loop shows a rejection for a full buffer it still holds
C17_Witness ==
    /\ variant = "raw"
    /\ pc = "input"
    /\ Len(guesses) > 0
    /\ last = "NotInDictionary"
    /\ Full
    /\ ~InEitherList(word)

\* the TUI loop has accepted a guess, cleared the buffer and goes on
C17_WitnessCleared ==
    /\ variant = "tui"
    /\ pc = "input"
    /\ Len(guesses) > 0
    /\ last = "Ok"
    /\ word = <<>>

----------------------------------------------------------------------------
(* Claims about what a session returns, checked under Spec *)

\* the game is over by its guesses: the last one is the solution, or there
\* are six
GameEnded ==
    /\ Len(GuessWords) > 0
    /\ \/ GuessWords[Len(GuessWords)] = solution
       \/ Len(GuessWords) >= MaxGuesses

\* in every state of a loop: a summary was returned only for a game that is
\* over, a session that ended without one was InProgress, the raw loop
\* returns the summary with the guess that ends the game, and the TUI loop
\* then waits for a key, which it can always take
C18_SummaryIffEnded ==
    InLoop =>
        /\ ret.tag = "Some" => (GameEnded /\ Outcome.tag \in {"Won", "Lost"})
        /\ ret.tag = "None" => (~GameEnded /\ Outcome = InProgress)
        /\ (variant = "raw" /\ GameEnded) => (pc = "done" /\ ret.tag = "Some")
        /\ (variant = "tui" /\ GameEnded) =>
              /\ outcome.tag \in {"Won", "Lost"}
              /\ pc \in {"ack", "done"}
              /\ pc = "done" => ret.tag = "Some"
              /\ pc = "ack" => ENABLED TuiAck

\* C18: a summary is returned only after the outcome has become Won or
\* Lost; Esc or end of input while InProgress ends the session without one,
\* however many guesses were accepted; once the game is over a summary is
\* returned, at once by the raw loop, by the TUI loop on the next Enter or
\* Esc, which is the only thing it does then.
C18_SummaryOnlyAfterEnd ==
    /\ []C18_SummaryIffEnded
    /\ [][/\ (RawEsc \/ RawEof \/ TuiEsc) =>
                (~GameEnded /\ ret'.tag = "None" /\ pc' = "done"
                    /\ guesses' = guesses)
          /\ (variant = "tui" /\ pc = "ack") =>
                /\ pc' = "done"
                /\ ret' = [tag |-> "Some",
                           share |-> StateShare(game_type, guesses, outcome)]
          /\ (InLoop /\ pc = "done") => FALSE]_vars

\* the TUI loop has returned the summary of a lost game
C18_Witness ==
    /\ variant = "tui"
    /\ pc = "done"
    /\ ret.tag = "Some"
    /\ outcome = Lost
    /\ Len(guesses) = MaxGuesses

\* the raw loop was left by Esc or end of input after two guesses
C18_WitnessNoSummary ==
    /\ variant = "raw"
    /\ pc = "done"
    /\ ret.tag = "None"
    /\ Len(guesses) = 2

----------------------------------------------------------------------------
(* Claims about the keyboard of the TUI controller, checked under Spec *)

\* the keyboard after the guesses gs[i], gs[i+1], ... were folded into kb,
\* one after the other
RECURSIVE FoldedFrom(_, _, _)
FoldedFrom(kb, gs, i) ==
    IF i > Len(gs) THEN kb
    ELSE FoldedFrom(KeyboardPush(kb, gs[i].word, gs[i].matches), gs, i + 1)

OccursInAGuess(c) ==
    \E i \in DOMAIN GuessWords : c \in Range(GuessWords[i])

C19_KeyboardIsFoldOfGuesses ==
    variant = "tui" =>
        /\ \A c \in Letters : keyboard[c] = "Unknown" <=> ~OccursInAGuess(c)
        /\ keyboard = FoldedFrom(KeyboardDefault, guesses, 1)

\* C19: in the TUI controller a letter's keyboard status is Unknown if and
\* only if the letter occurs in no accepted guess; the keyboard is what the
\* accepted guesses give, folded once each in guess order; a step that
\* accepts no guess leaves the keyboard, and a step that accepts one folds
\* that guess and its score
C19_KeyboardInStep ==
    /\ []C19_KeyboardIsFoldOfGuesses
    /\ [][variant = "tui" =>
             IF guesses' = guesses THEN keyboard' = keyboard
             ELSE /\ Len(guesses') = Len(guesses) + 1
                  /\ guesses'[Len(guesses')].word = word
                  /\ keyboard' = KeyboardPush(keyboard, word, diff(word, solution))]_vars

\* a candidate was rejected that has a letter no accepted guess has, and
\* the keyboard does not know the letter
C19_Witness ==
    /\ variant = "tui"
    /\ Len(guesses) > 1
    /\ last = "NotInDictionary"
    /\ Len(word) = WordLen
    /\ \E c \in Range(word) : ~OccursInAGuess(c) /\ keyboard[c] = "Unknown"
    /\ \E c \in Letters : keyboard[c] = "Exact"

====
